---------------------------- MODULE Spec2Model ----------------------------
(***************************************************************************)
(* Meds-Mate: the real-time risk scorer of server/storage.ts               *)
(* (calculateRealTimeRisk), the two POST endpoints that serve it and the   *)
(* 24-hour forecast, the forecast engine behind POST /api/predict-iop, and *)
(* the client components that request and display the results.            *)
(*                                                                         *)
(* JavaScript numbers are IEEE-754 binary64 values.  The scorer multiplies *)
(* by 1.2, 0.8 and 0.6, none of which is a binary fraction, so its sums    *)
(* carry rounding error and its comparisons and toFixed(1) calls see that  *)
(* error.  The model therefore computes in binary64: a number is a record  *)
(* [neg, m, e] of value (-1)^neg * m * 2^e, with m an arbitrary-precision  *)
(* natural number below 2^53, and every operation rounds to nearest, ties  *)
(* to even, as the hardware does.                                          *)
(***************************************************************************)
EXTENDS Integers, Sequences, FiniteSets, TLC

(***************************************************************************)
(* State.  body, frame, response: the POST /api/calculate-risk request at  *)
(* hand, the locals riskScore and riskPercentage of the call of            *)
(* calculateRealTimeRisk its handler made (if any), and its response.      *)
(* riskLog: every body the endpoint has answered, with the response sent.  *)
(* users, patientData, iopPredictions: the maps of MemStorage, in          *)
(* insertion order (a Map iterates in insertion order); ids stand for the  *)
(* fresh UUIDs and createdAt is left out.  awaiting: the ids of the        *)
(* patient records whose POST /api/predict-iop handler awaits the python3  *)
(* process.  forecastLog: the responses POST /api/predict-iop has sent.    *)
(* formData, debounce, inFlight: the state of PatientForm, whether its     *)
(* 300 ms timeout is pending, and the /api/calculate-risk requests it has  *)
(* sent that are not answered yet.  riskData: the state of RiskAssessment. *)
(* sent, failed: how many requests the form has sent, and whether one of   *)
(* them failed.  calls, returned: the creating calls made on MemStorage    *)
(* directly, each with the value it returned, and the value the latest     *)
(* call of any method returned.  unanswered: the ids of the patient        *)
(* records whose POST /api/predict-iop handler awaits a promise that will  *)
(* not settle.  shownPredictions, loading, error: the state of Home (null  *)
(* is the empty sequence).  submits: the calls of handleSubmit, each with  *)
(* its stage and the callbacks it has called.                              *)
(***************************************************************************)
VARIABLES body, frame, response, riskLog,
          users, patientData, iopPredictions, awaiting, forecastLog,
          formData, debounce, inFlight, riskData, sent, failed,
          calls, returned, unanswered,
          shownPredictions, loading, error, submits

vars == <<body, frame, response, riskLog,
          users, patientData, iopPredictions, awaiting, forecastLog,
          formData, debounce, inFlight, riskData, sent, failed,
          calls, returned, unanswered,
          shownPredictions, loading, error, submits>>

storeVars == <<users, patientData, iopPredictions, awaiting, forecastLog>>

riskVars == <<body, frame, response, riskLog>>

clientVars == <<formData, debounce, inFlight, riskData, sent, failed>>

callVars == <<calls, returned, unanswered>>

homeVars == <<shownPredictions, loading, error, submits>>

(***************************************************************************)
(* Arbitrary-precision naturals: little-endian sequences of limbs in       *)
(* 0..LimbBase-1 without leading (high) zero limbs; <<>> is zero.          *)
(***************************************************************************)
LimbBits == 14
LimbBase == 16384

RECURSIVE Pow2(_)
Pow2(n) == IF n = 0 THEN 1 ELSE 2 * Pow2(n - 1)

RECURSIVE BitLenSmall(_)
BitLenSmall(n) == IF n = 0 THEN 0 ELSE 1 + BitLenSmall(n \div 2)

RECURSIVE TrailingZerosSmall(_)
TrailingZerosSmall(n) == IF n % 2 = 1 THEN 0 ELSE 1 + TrailingZerosSmall(n \div 2)

RECURSIVE BTrim(_)
BTrim(x) ==
  IF x = <<>> THEN x
  ELSE IF x[Len(x)] = 0 THEN BTrim(SubSeq(x, 1, Len(x) - 1)) ELSE x

RECURSIVE BFromInt(_)
BFromInt(n) == IF n = 0 THEN <<>> ELSE <<n % LimbBase>> \o BFromInt(n \div LimbBase)

RECURSIVE BToInt(_)
BToInt(x) == IF x = <<>> THEN 0 ELSE Head(x) + LimbBase * BToInt(Tail(x))

BHead(x) == IF x = <<>> THEN 0 ELSE Head(x)
BTail(x) == IF x = <<>> THEN <<>> ELSE Tail(x)

RECURSIVE BAddC(_, _, _)
BAddC(x, y, c) ==
  IF x = <<>> /\ y = <<>> THEN (IF c = 0 THEN <<>> ELSE <<c>>)
  ELSE LET s == BHead(x) + BHead(y) + c
       IN  <<s % LimbBase>> \o BAddC(BTail(x), BTail(y), s \div LimbBase)

BAdd(x, y) == BAddC(x, y, 0)

\* x - y - c for x >= y + c
RECURSIVE BSubC(_, _, _)
BSubC(x, y, c) ==
  IF x = <<>> THEN <<>>
  ELSE LET d == Head(x) - BHead(y) - c
       IN  IF d < 0 THEN <<d + LimbBase>> \o BSubC(Tail(x), BTail(y), 1)
           ELSE <<d>> \o BSubC(Tail(x), BTail(y), 0)

BSub(x, y) == BTrim(BSubC(x, y, 0))

\* -1, 0 or 1 as x <, =, > y
RECURSIVE BCmpFrom(_, _, _)
BCmpFrom(x, y, i) ==
  IF i = 0 THEN 0
  ELSE IF x[i] < y[i] THEN -1
  ELSE IF x[i] > y[i] THEN 1
  ELSE BCmpFrom(x, y, i - 1)

BCmp(x, y) ==
  IF Len(x) < Len(y) THEN -1
  ELSE IF Len(x) > Len(y) THEN 1
  ELSE BCmpFrom(x, y, Len(x))

\* x * k + c for a small k (k < 2^16)
RECURSIVE BMulSmallC(_, _, _)
BMulSmallC(x, k, c) ==
  IF x = <<>> THEN BFromInt(c)
  ELSE LET p == Head(x) * k + c
       IN  <<p % LimbBase>> \o BMulSmallC(Tail(x), k, p \div LimbBase)

BMulSmall(x, k) == BTrim(BMulSmallC(x, k, 0))

RECURSIVE BMul(_, _)
BMul(x, y) ==
  IF x = <<>> \/ y = <<>> THEN <<>>
  ELSE LET rest == BMul(x, Tail(y))
       IN  BAdd(BMulSmall(x, Head(y)),
                IF rest = <<>> THEN <<>> ELSE <<0>> \o rest)

\* long division by a small k (k < 2^16), from the high limb down:
\* [q |-> quotient (untrimmed, same length), r |-> remainder]
RECURSIVE BDivSmallFrom(_, _, _, _)
BDivSmallFrom(x, k, i, r) ==
  IF i = 0 THEN [q |-> <<>>, r |-> r]
  ELSE LET cur  == r * LimbBase + x[i]
           rest == BDivSmallFrom(x, k, i - 1, cur % k)
       IN  [q |-> rest.q \o <<cur \div k>>, r |-> rest.r]

BDivSmall(x, k) ==
  LET d == BDivSmallFrom(x, k, Len(x), 0)
  IN  [q |-> BTrim(d.q), r |-> d.r]

Zeros(n) == [i \in 1..n |-> 0]

\* x * 2^n
BShl(x, n) ==
  IF x = <<>> THEN <<>>
  ELSE Zeros(n \div LimbBits) \o BMulSmall(x, Pow2(n % LimbBits))

\* floor(x / 2^n)
BShr(x, n) ==
  IF n \div LimbBits >= Len(x) THEN <<>>
  ELSE BDivSmall(SubSeq(x, n \div LimbBits + 1, Len(x)), Pow2(n % LimbBits)).q

BBitLen(x) ==
  IF x = <<>> THEN 0 ELSE LimbBits * (Len(x) - 1) + BitLenSmall(x[Len(x)])

RECURSIVE BTrailingZeros(_)
BTrailingZeros(x) ==
  IF Head(x) = 0 THEN LimbBits + BTrailingZeros(Tail(x))
  ELSE TrailingZerosSmall(Head(x))

BIsOdd(x) == x # <<>> /\ Head(x) % 2 = 1

(***************************************************************************)
(* binary64.  The canonical form has an odd m (or m = 0, e = 0, neg =      *)
(* FALSE), so equal values are equal records.  Subnormals, infinities and  *)
(* NaN are out of reach of the scorer's magnitudes and are not modelled.   *)
(***************************************************************************)
MantissaBits == 53

FZero == [neg |-> FALSE, m |-> <<>>, e |-> 0]

Canon(neg, M, e) ==
  IF M = <<>> THEN FZero
  ELSE LET tz == BTrailingZeros(M)
       IN  [neg |-> neg, m |-> BShr(M, tz), e |-> e + tz]

\* the binary64 nearest to (-1)^neg * M * 2^e, ties to even
Round(neg, M, e) ==
  LET L == BBitLen(M)
  IN  IF L <= MantissaBits THEN Canon(neg, M, e)
      ELSE LET d    == L - MantissaBits
               q    == BShr(M, d)
               r    == BSub(M, BShl(q, d))
               half == BShl(<<1>>, d - 1)
               c    == BCmp(r, half)
               up   == c > 0 \/ (c = 0 /\ BIsOdd(q))
           IN  Canon(neg, IF up THEN BAdd(q, <<1>>) ELSE q, e + d)

FromInt(n) == IF n < 0 THEN Canon(TRUE, BFromInt(-n), 0) ELSE Canon(FALSE, BFromInt(n), 0)

Min2(a, b) == IF a < b THEN a ELSE b

FNeg(a) == IF a.m = <<>> THEN a ELSE [a EXCEPT !.neg = ~a.neg]

\* exact sum as [neg, M, e], not yet rounded
ExactAdd(a, b) ==
  LET e  == Min2(a.e, b.e)
      A  == BShl(a.m, a.e - e)
      Bm == BShl(b.m, b.e - e)
  IN  IF a.neg = b.neg THEN [neg |-> a.neg, M |-> BAdd(A, Bm), e |-> e]
      ELSE IF BCmp(A, Bm) >= 0 THEN [neg |-> a.neg, M |-> BSub(A, Bm), e |-> e]
      ELSE [neg |-> b.neg, M |-> BSub(Bm, A), e |-> e]

FAdd(a, b) == LET s == ExactAdd(a, b) IN Round(s.neg, s.M, s.e)

FMul(a, b) == Round(a.neg # b.neg, BMul(a.m, b.m), a.e + b.e)

\* a / b for a divisor whose canonical mantissa is one limb (100 = 25 * 2^2,
\* 10 = 5 * 2^1): the quotient to 70 extra bits, with a sticky low bit
DivShiftLimbs == 5
FDiv(a, b) ==
  IF a.m = <<>> THEN FZero
  ELSE LET d == BDivSmall(Zeros(DivShiftLimbs) \o a.m, Head(b.m))
           M == BAdd(BMulSmall(d.q, 2), IF d.r = 0 THEN <<>> ELSE <<1>>)
       IN  Round(a.neg # b.neg, M, a.e - b.e - DivShiftLimbs * LimbBits - 1)

\* a < b
FLt(a, b) == LET s == ExactAdd(a, FNeg(b)) IN s.M # <<>> /\ s.neg

FMax(a, b) == IF FLt(a, b) THEN b ELSE a
FMin(a, b) == IF FLt(b, a) THEN b ELSE a

\* a decimal literal num/den of the source text: the nearest binary64
Lit(num, den) == FDiv(FromInt(num), FromInt(den))

\* Number.prototype.toFixed(1) followed by parseFloat: the integer n nearest
\* to 10 * x (the larger one on a tie, on the magnitude), standing for the
\* string "n/10" and for the binary64 nearest to it
ToFixed1(x) ==
  LET N   == BMulSmall(x.m, 10)
      mag == IF x.e >= 0 THEN BToInt(BShl(N, x.e))
             ELSE BToInt(BShr(BAdd(N, BShl(<<1>>, -x.e - 1)), -x.e))
  IN  IF x.neg THEN -mag ELSE mag


(***************************************************************************)
(* calculateRealTimeRisk (server/storage.ts).  The record it returns holds *)
(* risk_percentage and average_predicted_iop as parseFloat(x.toFixed(1)),  *)
(* written here in tenths: 230 is the number 23.0.                         *)
(***************************************************************************)
Msg_low      == "Current treatment appears to be working effectively. Continue current regimen."
Msg_moderate == "Elevated risk detected. Consider adjusting treatment schedule or medication."
Msg_high     == "High risk of elevated IOP. Recommend immediate consultation with ophthalmologist."
Msg_critical == "Critical risk level. Emergency ophthalmology consultation required."

\* the numeric literals of calculateRealTimeRisk as binary64 values
F_0   == FromInt(0)
F_1   == FromInt(1)
F_2   == FromInt(2)
F_14  == FromInt(14)
F_20  == FromInt(20)
F_40  == FromInt(40)
F_70  == FromInt(70)
F_100 == FromInt(100)
F_0_5 == Lit(5, 10)
F_0_6 == Lit(6, 10)
F_0_8 == Lit(8, 10)
F_1_2 == Lit(12, 10)
F_1_5 == Lit(15, 10)

\* riskScore += Math.max(0, (data.age - 40) * 0.5)
AgeFactor(data) == FMax(F_0, FMul(FromInt(data.age - 40), F_0_5))

\* a slip: the slider value itself, not its distance from the best value
SleepFactor_NotInverted(data) == FMul(FromInt(data.sleepQuality), F_2)

\* riskScore += (10 - data.sleepQuality) * 2
SleepFactor(data) == FMul(FromInt(10 - data.sleepQuality), F_2)

\* a slip: weight 2 in place of 1.5
StressFactor_WeightTwo(data) == FMul(FromInt(data.stressLevel), F_2)

\* a slip: the stress scale taken to start at 0
StressFactor_FromZero(data) == FMul(FromInt(data.stressLevel - 1), F_1_5)

\* riskScore += data.stressLevel * 1.5
StressFactor(data) == FMul(FromInt(data.stressLevel), F_1_5)

\* a slip: weight 1.5 in place of 1.2
ActivityFactor_WeightOneAndHalf(data) == FMul(FromInt(10 - data.physicalActivity), F_1_5)

\* riskScore += (10 - data.physicalActivity) * 1.2
ActivityFactor(data) == FMul(FromInt(10 - data.physicalActivity), F_1_2)

\* a slip: >= in place of >
BloodPressurePoints_NotStrict(data) ==
  IF data.systolicBP >= 140 \/ data.diastolicBP >= 90 THEN 8
  ELSE IF data.systolicBP >= 130 \/ data.diastolicBP >= 80 THEN 4
  ELSE 0

\* the if / else if on blood pressure: the points added (0 when neither branch runs)
BloodPressurePoints(data) ==
  IF data.systolicBP > 140 \/ data.diastolicBP > 90 THEN 8
  ELSE IF data.systolicBP > 130 \/ data.diastolicBP > 80 THEN 4
  ELSE 0

\* a slip: diabetes read off the blood sugar when one is given
DiabetesPoints_ByBloodSugar(data) ==
  IF "bloodSugar" \in DOMAIN data /\ data.bloodSugar > 125 THEN 12
  ELSE IF data.diabetesStatus = "type1" \/ data.diabetesStatus = "type2" THEN 12
  ELSE IF data.diabetesStatus = "prediabetes" THEN 6
  ELSE 0

\* the if / else if on diabetesStatus: the points added
DiabetesPoints(data) ==
  IF data.diabetesStatus = "type1" \/ data.diabetesStatus = "type2" THEN 12
  ELSE IF data.diabetesStatus = "prediabetes" THEN 6
  ELSE 0

\* a slip: several relatives scored as one
FamilyHistoryPoints_MultipleAsOne(data) ==
  IF data.familyHistory \in {"multiple", "parent", "sibling"} THEN 8 ELSE 0

FamilyHistoryPoints(data) ==
  IF data.familyHistory = "multiple" THEN 15
  ELSE IF data.familyHistory = "parent" \/ data.familyHistory = "sibling" THEN 8
  ELSE 0

\* riskScore += points, in a branch that runs only when points are due
AddPoints(score, points) == IF points = 0 THEN score ELSE FAdd(score, FromInt(points))

\* the value of riskScore when line 179 is reached
RiskScore(data) ==
  LET s1 == FAdd(F_0, AgeFactor(data))
      s2 == FAdd(s1, SleepFactor(data))
      s3 == FAdd(s2, StressFactor(data))
      s4 == FAdd(s3, ActivityFactor(data))
      s5 == AddPoints(s4, BloodPressurePoints(data))
      s6 == AddPoints(s5, DiabetesPoints(data))
      s7 == AddPoints(s6, FamilyHistoryPoints(data))
  IN  IF data.lastDropHours > 24
      THEN FAdd(s7, FMul(FromInt(data.lastDropHours - 24), F_0_8))
      ELSE s7

\* a slip: the floor at 0 left out
ClampPercentage_NoFloor(riskScore) == FMin(F_100, riskScore)

\* a slip: the cap at 100 left out
ClampPercentage_NoCap(riskScore) == FMax(F_0, riskScore)

\* const riskPercentage = Math.min(100, Math.max(0, riskScore))
ClampPercentage(riskScore) == FMin(F_100, FMax(F_0, riskScore))

RiskPercentage(data) == ClampPercentage(RiskScore(data))

\* a slip: the message of the next branch pasted into the 'high' branch
RiskClass_PastedMessage(riskPercentage) ==
  IF FLt(riskPercentage, F_20)
  THEN [riskLevel |-> "low", message |-> Msg_low]
  ELSE IF FLt(riskPercentage, F_40)
  THEN [riskLevel |-> "moderate", message |-> Msg_moderate]
  ELSE IF FLt(riskPercentage, F_70)
  THEN [riskLevel |-> "high", message |-> Msg_critical]
  ELSE [riskLevel |-> "critical", message |-> Msg_critical]

\* the if / else if chain on the unrounded riskPercentage, which sets
\* riskLevel and message together
RiskClass(riskPercentage) ==
  IF FLt(riskPercentage, F_20)
  THEN [riskLevel |-> "low", message |-> Msg_low]
  ELSE IF FLt(riskPercentage, F_40)
  THEN [riskLevel |-> "moderate", message |-> Msg_moderate]
  ELSE IF FLt(riskPercentage, F_70)
  THEN [riskLevel |-> "high", message |-> Msg_high]
  ELSE [riskLevel |-> "critical", message |-> Msg_critical]

\* a slip: the factor 0.8 of the line above the clamp in place of 0.6
AveragePredictedIop_WrongFactor(riskPercentage) ==
  ToFixed1(FMul(F_14, FAdd(F_1, FMul(FDiv(riskPercentage, F_100), F_0_8))))

\* parseFloat((baseIOP * riskMultiplier).toFixed(1)), in tenths
AveragePredictedIop(riskPercentage) ==
  LET baseIOP        == F_14
      riskMultiplier == FAdd(F_1, FMul(FDiv(riskPercentage, F_100), F_0_6))
  IN  ToFixed1(FMul(baseIOP, riskMultiplier))

\* a slip: riskScore kept outside the function and seeded from shared state
RiskFrame_SharedState(data) ==
  LET riskScore == FAdd(FromInt(Len(patientData)), RiskScore(data))
  IN  [riskScore |-> riskScore,
       riskPercentage |-> FMin(F_100, FMax(F_0, riskScore))]

\* the locals of one call when line 180 has run
RiskFrame(data) ==
  LET riskScore == RiskScore(data)
  IN  [riskScore |-> riskScore, riskPercentage |-> ClampPercentage(riskScore)]

\* lines 182-210: the record returned, from the local riskPercentage
RiskResult(riskPercentage) ==
  LET class == RiskClass(riskPercentage)
  IN  [risk_percentage       |-> ToFixed1(riskPercentage),
       risk_level            |-> class.riskLevel,
       average_predicted_iop |-> AveragePredictedIop(riskPercentage),
       message               |-> class.message]

calculateRealTimeRisk(data) == RiskResult(RiskPercentage(data))

(***************************************************************************)
(* Request bodies.  A body is a record of the fields the client sent.      *)
(* insertPatientDataSchema (shared/schema.ts) requires every notNull       *)
(* column of patient_data and puts no range on a number and no enumeration *)
(* on a text; bloodSugar is nullable and may be absent.                    *)
(***************************************************************************)
RequiredFields ==
  {"age", "gender", "sleepQuality", "stressLevel", "physicalActivity",
   "diabetesStatus", "systolicBP", "diastolicBP", "familyHistory",
   "currentMedications", "lastDropHours"}

\* insertPatientDataSchema.parse(req.body) returns rather than throws
SchemaAccepts(b) == RequiredFields \subseteq DOMAIN b

\* lastDropHours has no upper limit in the code; the model stops here
MaxLastDropHours == 72

Ages             == {18, 41, 50, 100}
SleepQualities   == {1, 7, 10}
StressLevels     == {1, 4, 10}
ActivityLevels   == {1, 5, 10}
BloodPressures   == {<<120, 80>>, <<130, 80>>, <<131, 80>>, <<120, 81>>,
                     <<140, 90>>, <<141, 80>>, <<120, 91>>, <<150, 95>>}
DiabetesStatuses == {"none", "prediabetes", "type1", "type2"}
FamilyHistories  == {"none", "parent", "sibling", "multiple"}
LastDropHours    == {0, 24, 28, 48, MaxLastDropHours}

\* blood pressure, diabetes status, family history: every blood pressure
\* without the other two, and the other two in full at the lowest and the
\* highest blood pressure
ClinicalProfiles ==
  {<<bp, "none", "none">> : bp \in BloodPressures}
  \cup {<<bp, db, fh>> : bp \in {<<120, 80>>, <<150, 95>>},
                         db \in DiabetesStatuses, fh \in FamilyHistories}

PatientRecord(a, sl, st, pa, bp, db, fh, ld) ==
  [age |-> a, gender |-> "male", sleepQuality |-> sl, stressLevel |-> st,
   physicalActivity |-> pa, diabetesStatus |-> db, bloodSugar |-> 100,
   systolicBP |-> bp[1], diastolicBP |-> bp[2], familyHistory |-> fh,
   currentMedications |-> "none", lastDropHours |-> ld]

ValidBodies ==
  {PatientRecord(a, sl, st, pa, c[1], c[2], c[3], ld) :
     a \in Ages, sl \in SleepQualities, st \in StressLevels,
     pa \in ActivityLevels, c \in ClinicalProfiles, ld \in LastDropHours}

\* PatientForm's initial formData (client/src/components/patient-form.tsx)
DefaultFormData == PatientRecord(50, 7, 4, 5, <<120, 80>>, "none", "none", 24)

\* every risk factor at its worst
MaxedRecord == PatientRecord(100, 1, 10, 1, <<150, 95>>, "type2", "multiple", 48)

\* bodies the schema rejects: a required field is missing
MalformedBodies ==
  {[f \in RequiredFields \ {"age"} |-> DefaultFormData[f]],
   [f \in {"age", "gender"} |-> DefaultFormData[f]]}

Bodies == ValidBodies \cup MalformedBodies

\* the sliders of the form run over 1..10: bodies with every sleepQuality
\* and stressLevel, and a few values of the other fields
SliderRange == 1..10

SliderBodies ==
  {PatientRecord(a, sl, st, pa, c[1], c[2], c[3], ld) :
     a \in {18, 100}, sl \in SliderRange, st \in SliderRange, pa \in {1, 5},
     c \in {<<<<120, 80>>, "none", "none">>, <<<<150, 95>>, "type2", "multiple">>},
     ld \in {24, 28, MaxLastDropHours}}

(***************************************************************************)
(* The forecast engine: server/ml/iop_model.py, the script callPythonModel *)
(* runs.  It reads one patient record from stdin and prints one forecast   *)
(* (IopForecastResponse, shared/schema.ts) to stdout.  It is written here  *)
(* from the specification of RiskScorer, ForecastEngine and                *)
(* ResponseAssembler, in exact decimal arithmetic: pressures and           *)
(* percentages are integers in tenths, a time string is the sequence of    *)
(* its characters.                                                         *)
(***************************************************************************)
\* RiskScorer: the table of contributions, summed, in tenths
ScorerRawScore(attrs) ==
    (IF attrs.age > 40 THEN (attrs.age - 40) * 5 ELSE 0)
  + (10 - attrs.sleepQuality) * 20
  + attrs.stressLevel * 15
  + (10 - attrs.physicalActivity) * 12
  + (IF attrs.systolicBP > 140 \/ attrs.diastolicBP > 90 THEN 80
     ELSE IF attrs.systolicBP > 130 \/ attrs.diastolicBP > 80 THEN 40
     ELSE 0)
  + (IF attrs.diabetesStatus \in {"type1", "type2"} THEN 120
     ELSE IF attrs.diabetesStatus = "prediabetes" THEN 60
     ELSE 0)
  + (IF attrs.familyHistory = "multiple" THEN 150
     ELSE IF attrs.familyHistory \in {"parent", "sibling"} THEN 80
     ELSE 0)
  + (IF attrs.lastDropHours > 24 THEN (attrs.lastDropHours - 24) * 8 ELSE 0)

\* riskLevel thresholds: [0,20) low, [20,40) moderate, [40,70) high,
\* [70,100] critical, on the riskPercentage (in tenths)
ScorerLevel(riskPercentage) ==
  IF riskPercentage < 200 THEN "low"
  ELSE IF riskPercentage < 400 THEN "moderate"
  ELSE IF riskPercentage < 700 THEN "high"
  ELSE "critical"

ScorerMessage(riskLevel) ==
  CASE riskLevel = "low" -> Msg_low
    [] riskLevel = "moderate" -> Msg_moderate
    [] riskLevel = "high" -> Msg_high
    [] riskLevel = "critical" -> Msg_critical

\* 14.0 * (1 + (riskPercentage / 100) * 0.6), rounded to one decimal
ScorerAverageIop(riskPercentage) == (140000 + 84 * riskPercentage + 500) \div 1000

RiskScorerCompute(attrs) ==
  LET raw            == ScorerRawScore(attrs)
      riskPercentage == IF raw < 0 THEN 0 ELSE IF raw > 1000 THEN 1000 ELSE raw
      riskLevel      == ScorerLevel(riskPercentage)
  IN  [riskPercentage      |-> riskPercentage,
       riskLevel           |-> riskLevel,
       averagePredictedIop |-> ScorerAverageIop(riskPercentage),
       message             |-> ScorerMessage(riskLevel)]

HoursPerDay == 24

\* the diurnal curve around the patient's average, in tenths: a cosine of
\* amplitude 2.0 mmHg with its peak at 6 h and its trough at 18 h
CircadianCurve ==
  <<0, 5, 10, 14, 17, 19, 20, 19, 17, 14, 10, 5,
    0, -5, -10, -14, -17, -19, -20, -19, -17, -14, -10, -5>>

\* a dose lowers the pressure for DropWindow hours, by DropEfficacy tenths
\* for every hour of the window that is left
DropWindow   == 12
DropEfficacy == 2

DropSuppression(attrs, h) ==
  LET elapsed == attrs.lastDropHours + h
  IN  IF elapsed < DropWindow THEN (DropWindow - elapsed) * DropEfficacy ELSE 0

\* per-hour thresholds in mmHg: < 15 low, [15,18) moderate, [18,21) high,
\* >= 21 critical
HourlyRiskLevel(iop) ==
  IF iop < 150 THEN "low"
  ELSE IF iop < 180 THEN "moderate"
  ELSE IF iop < 210 THEN "high"
  ELSE "critical"

HourlyPrediction(attrs, average, h) ==
  LET iop == average + CircadianCurve[h + 1] - DropSuppression(attrs, h)
  IN  [hour |-> h, predicted_iop |-> iop, risk_level |-> HourlyRiskLevel(iop)]

\* a slip: the loop over the hours starts at 1
HourlyPredictions_SkipsMidnight(attrs, average) ==
  [i \in 1..HoursPerDay - 1 |-> HourlyPrediction(attrs, average, i)]

HourlyPredictions(attrs, average) ==
  [i \in 1..HoursPerDay |-> HourlyPrediction(attrs, average, i - 1)]

RECURSIVE IopSum(_, _)
IopSum(predictions, i) ==
  IF i = 0 THEN 0 ELSE predictions[i].predicted_iop + IopSum(predictions, i - 1)

RECURSIVE IopMax(_, _)
IopMax(predictions, i) ==
  IF i = 1 THEN predictions[1].predicted_iop
  ELSE LET rest == IopMax(predictions, i - 1)
       IN  IF predictions[i].predicted_iop > rest
           THEN predictions[i].predicted_iop ELSE rest

RECURSIVE IopMin(_, _)
IopMin(predictions, i) ==
  IF i = 1 THEN predictions[1].predicted_iop
  ELSE LET rest == IopMin(predictions, i - 1)
       IN  IF predictions[i].predicted_iop < rest
           THEN predictions[i].predicted_iop ELSE rest

\* a slip: the middle of peak and trough taken for the mean
CircadianStats_MidRange(predictions) ==
  LET n      == Len(predictions)
      peak   == IopMax(predictions, n)
      trough == IopMin(predictions, n)
  IN  [peak_iop    |-> peak,
       trough_iop  |-> trough,
       average_iop |-> (peak + trough + 1) \div 2]

\* peakIop, troughIop and averageIop, the mean rounded to one decimal
CircadianStats(predictions) ==
  LET n == Len(predictions)
  IN  [peak_iop    |-> IopMax(predictions, n),
       trough_iop  |-> IopMin(predictions, n),
       average_iop |-> (2 * IopSum(predictions, n) + n) \div (2 * n)]

\* a slip: <= in the scan, so the latest of the lowest hours wins
RECURSIVE OptimalIndex_LatestWins(_, _)
OptimalIndex_LatestWins(predictions, i) ==
  IF i = 1 THEN 1
  ELSE LET best == OptimalIndex_LatestWins(predictions, i - 1)
       IN  IF predictions[i].predicted_iop <= predictions[best].predicted_iop
           THEN i ELSE best

\* the index of the lowest prediction among the first i, the earliest one
\* when several are lowest: a scan that moves on a strictly lower value only
RECURSIVE OptimalIndex(_, _)
OptimalIndex(predictions, i) ==
  IF i = 1 THEN 1
  ELSE LET best == OptimalIndex(predictions, i - 1)
       IN  IF predictions[i].predicted_iop < predictions[best].predicted_iop
           THEN i ELSE best

DecimalDigits == <<"0", "1", "2", "3", "4", "5", "6", "7", "8", "9">>

\* the hour as a time string, "06:00"
FormatHour(h) ==
  <<DecimalDigits[(h \div 10) + 1], DecimalDigits[(h % 10) + 1], ":", "0", "0">>

\* ResponseAssembler: the four parts in the layout of IopForecastResponse
ResponseAssemblerAssemble(riskAssessment, hourlyPredictions, circadianStats, optimalDropTime) ==
  [predictions        |-> hourlyPredictions,
   optimal_drop_time  |-> optimalDropTime,
   circadian_analysis |-> circadianStats,
   risk_assessment    |-> [level           |-> riskAssessment.riskLevel,
                           message         |-> riskAssessment.message,
                           risk_percentage |-> riskAssessment.riskPercentage]]

ForecastEngineCompute(attrs) ==
  LET riskAssessment    == RiskScorerCompute(attrs)
      hourlyPredictions == HourlyPredictions(attrs, riskAssessment.averagePredictedIop)
      optimalHour       ==
        hourlyPredictions[OptimalIndex(hourlyPredictions, Len(hourlyPredictions))].hour
  IN  ResponseAssemblerAssemble(riskAssessment, hourlyPredictions,
                                CircadianStats(hourlyPredictions),
                                FormatHour(optimalHour))

\* what the python3 child process can do with the record written to its
\* stdin: exit with a non-zero code, print text that is not JSON, or print
\* the forecast for the record
PythonOutcomes(data) ==
  {[code |-> 1, stdout |-> [text |-> ""]],
   [code |-> 0, stdout |-> [text |-> "not json"]],
   [code |-> 0, stdout |-> ForecastEngineCompute(data)]}

\* JSON.parse(stdout) returns rather than throws: stdout is a forecast, not
\* other text
JsonParses(stdout) == "text" \notin DOMAIN stdout

(***************************************************************************)
(* The client components that display a result.                            *)
(***************************************************************************)
\* a slip: > in place of >=
getBarColor_Strict(iop) ==
  IF iop > 210 THEN "bg-destructive"
  ELSE IF iop > 180 THEN "bg-chart-3"
  ELSE IF iop > 150 THEN "bg-chart-2"
  ELSE "bg-chart-1"

\* IopChart.getBarColor, on a pressure in tenths
getBarColor(iop) ==
  IF iop >= 210 THEN "bg-destructive"
  ELSE IF iop >= 180 THEN "bg-chart-3"
  ELSE IF iop >= 150 THEN "bg-chart-2"
  ELSE "bg-chart-1"

\* IopChart.getRiskInfo: the text of the record it returns; the riskLevel
\* argument is not read
getRiskInfo(iop, riskLevel) ==
  IF iop >= 210 THEN "Critical Risk"
  ELSE IF iop >= 180 THEN "High Risk"
  ELSE IF iop >= 150 THEN "Moderate Risk"
  ELSE "Low Risk"

\* the characters of s before the first c (all of s when it has none)
RECURSIVE TakeUntil(_, _)
TakeUntil(s, c) ==
  IF s = <<>> \/ Head(s) = c THEN <<>> ELSE <<Head(s)>> \o TakeUntil(Tail(s), c)

\* the characters of s after the first c (none when it has none)
RECURSIVE DropThrough(_, _)
DropThrough(s, c) ==
  IF s = <<>> THEN <<>> ELSE IF Head(s) = c THEN Tail(s) ELSE DropThrough(Tail(s), c)

DigitValue(c) == CHOOSE d \in 0..9 : DecimalDigits[d + 1] = c

IsDigit(c) == \E d \in 0..9 : DecimalDigits[d + 1] = c

\* parseInt on a string without sign or blanks: the number its leading
\* digits spell, NaN when it has none
RECURSIVE ParseDigits(_, _)
ParseDigits(s, acc) ==
  IF s = <<>> \/ ~IsDigit(Head(s)) THEN acc
  ELSE ParseDigits(Tail(s), 10 * acc + DigitValue(Head(s)))

parseInt(s) == IF s = <<>> \/ ~IsDigit(Head(s)) THEN "NaN" ELSE ParseDigits(s, 0)

\* OptimalTiming: optimalTime.includes(" ") ? optimalTime.split(" ")[1] :
\* optimalTime; const [hour] = timeString.split(":"); parseInt(hour)
OptimalTimingHour(optimalTime) ==
  LET timeString ==
        IF \E i \in 1..Len(optimalTime) : optimalTime[i] = " "
        THEN TakeUntil(DropThrough(optimalTime, " "), " ")
        ELSE optimalTime
      hour == TakeUntil(timeString, ":")
  IN  parseInt(hour)

\* the initial state of RiskAssessment
InitialRiskData ==
  [risk_percentage |-> 0, risk_level |-> "low", average_predicted_iop |-> 145,
   message |-> "Enter patient data to calculate personalized risk assessment..."]

(***************************************************************************)
(* The server: both endpoints over one MemStorage.                         *)
(***************************************************************************)
\* the bodies of the requests of the server specification
ServerBodies ==
  {DefaultFormData, MaxedRecord, [f \in {"age", "gender"} |-> DefaultFormData[f]]}

\* the store holds at most this many patient records in the model
MaxPatients == 2

NoResponse == [status |-> 0]
NoFrame    == [riskScore |-> "unset", riskPercentage |-> "unset"]
NoReturn   == [op |-> "none", arg |-> <<>>, result |-> <<>>]

EmptyStore ==
  /\ users = <<>>
  /\ patientData = <<>>
  /\ iopPredictions = <<>>
  /\ awaiting = {}
  /\ forecastLog = {}
  /\ calls = <<>>
  /\ returned = NoReturn
  /\ unanswered = {}

\* PatientForm and RiskAssessment when they have mounted: the effect on
\* formData has run once and set the timeout
MountedClient ==
  /\ formData = DefaultFormData
  /\ debounce = TRUE
  /\ inFlight = {}
  /\ riskData = InitialRiskData
  /\ sent = 0
  /\ failed = FALSE
  /\ shownPredictions = <<>>
  /\ loading = FALSE
  /\ error = ""
  /\ submits = <<>>

InitRequest(bodies) ==
  /\ body \in bodies
  /\ frame = NoFrame
  /\ response = NoResponse
  /\ riskLog = {}
  /\ EmptyStore
  /\ MountedClient

Init == InitRequest(Bodies)

InitSliders == InitRequest(SliderBodies)

InitServer == InitRequest(ServerBodies)

\* a slip: the key of the map not fresh, so that set() replaces the entry
\* stored last
createPatientData_KeyReused(data) ==
  IF patientData = <<>>
  THEN <<[id |-> 1, data |-> data]>>
  ELSE [patientData EXCEPT ![Len(patientData)] =
          [id |-> Len(patientData), data |-> data]]

\* MemStorage.createPatientData: the map after the insertion
createPatientData(data) ==
  Append(patientData, [id |-> Len(patientData) + 1, data |-> data])

\* a slip: the id drawn once, before the loop
createdPredictions_OneId(predictions) ==
  [i \in 1..Len(predictions) |->
     [id            |-> Len(iopPredictions) + 1,
      patientDataId |-> predictions[i].patientDataId,
      hour          |-> predictions[i].hour,
      predictedIop  |-> predictions[i].predictedIop,
      riskLevel     |-> predictions[i].riskLevel]]

\* MemStorage.createIopPredictions: the list it builds and returns, every
\* element with an id of its own
createdPredictions(predictions) ==
  [i \in 1..Len(predictions) |->
     [id            |-> Len(iopPredictions) + i,
      patientDataId |-> predictions[i].patientDataId,
      hour          |-> predictions[i].hour,
      predictedIop  |-> predictions[i].predictedIop,
      riskLevel     |-> predictions[i].riskLevel]]

\* MemStorage.createIopPredictions: the map after the insertions
createIopPredictions(predictions) ==
  iopPredictions \o createdPredictions(predictions)

\* a slip: the line of the predict-iop handler that stores the record,
\* pasted into this handler
CalculateRisk_StoresRecord ==
  /\ response = NoResponse
  /\ SchemaAccepts(body)
  /\ patientData' = createPatientData(body)
  /\ frame' = RiskFrame(body)
  /\ response' = [status |-> 200, json |-> RiskResult(frame'.riskPercentage)]
  /\ riskLog' = riskLog \cup {[body |-> body, response |-> response']}
  /\ UNCHANGED <<body, users, iopPredictions, awaiting, forecastLog, clientVars,
               callVars, homeVars>>

\* try { parse; calculateRealTimeRisk; res.json } with a body the schema
\* accepts.  The handler has no await, so it runs to its response in one step.
CalculateRisk ==
  /\ response = NoResponse
  /\ SchemaAccepts(body)
  /\ frame' = RiskFrame(body)
  /\ response' = [status |-> 200, json |-> RiskResult(frame'.riskPercentage)]
  /\ riskLog' = riskLog \cup {[body |-> body, response |-> response']}
  /\ UNCHANGED <<body, storeVars, clientVars,
               callVars, homeVars>>

\* catch (error) { res.status(400).json({ error }) }: parse threw
CalculateRiskRejects ==
  /\ response = NoResponse
  /\ ~SchemaAccepts(body)
  /\ response' = [status |-> 400, json |-> [error |-> "ZodError"]]
  /\ riskLog' = riskLog \cup {[body |-> body, response |-> response']}
  /\ UNCHANGED <<body, frame, storeVars, clientVars,
               callVars, homeVars>>

\* a client sends the next POST /api/calculate-risk
NextRiskRequest ==
  /\ response # NoResponse
  /\ body' \in ServerBodies
  /\ frame' = NoFrame
  /\ response' = NoResponse
  /\ UNCHANGED <<riskLog, storeVars, clientVars,
               callVars, homeVars>>

\* a slip: the id kept in a variable all requests share, which holds the
\* id of the record stored last
predictionData_SharedId(savedPatientDataId, predictions) ==
  [i \in 1..Len(predictions) |->
     [patientDataId |-> Len(patientData),
      hour          |-> predictions[i].hour,
      predictedIop  |-> predictions[i].predicted_iop,
      riskLevel     |-> predictions[i].risk_level]]

\* a slip: the predictions stored latest hour first
predictionData_Reversed(savedPatientDataId, predictions) ==
  [i \in 1..Len(predictions) |->
     [patientDataId |-> savedPatientDataId,
      hour          |-> predictions[Len(predictions) + 1 - i].hour,
      predictedIop  |-> predictions[Len(predictions) + 1 - i].predicted_iop,
      riskLevel     |-> predictions[Len(predictions) + 1 - i].risk_level]]

\* predictions.predictions.map(pred => ({ patientDataId: savedPatientData.id,
\* hour, predictedIop, riskLevel }))
predictionData(savedPatientDataId, predictions) ==
  [i \in 1..Len(predictions) |->
     [patientDataId |-> savedPatientDataId,
      hour          |-> predictions[i].hour,
      predictedIop  |-> predictions[i].predicted_iop,
      riskLevel     |-> predictions[i].risk_level]]

\* POST /api/predict-iop up to its first await that yields: the body parsed
\* and stored, the python3 process spawned and the record written to it
PredictIopStarts(b) ==
  /\ SchemaAccepts(b)
  /\ Len(patientData) < MaxPatients
  /\ patientData' = createPatientData(b)
  /\ awaiting' = awaiting \cup {Len(patientData) + 1}
  /\ UNCHANGED <<riskVars, users, iopPredictions, forecastLog, clientVars,
               callVars, homeVars>>

\* a slip: the catch of the calculate-risk handler, which answers 400
PredictIopRejects_BadRequest(b) ==
  /\ ~SchemaAccepts(b)
  /\ forecastLog' = forecastLog \cup
       {[patientDataId |-> 0, status |-> 400, json |-> [error |-> "ZodError"]]}
  /\ UNCHANGED <<riskVars, users, patientData, iopPredictions, awaiting, clientVars,
                 callVars, homeVars>>

\* POST /api/predict-iop with a body the schema rejects: the catch answers 500
PredictIopRejects(b) ==
  /\ ~SchemaAccepts(b)
  /\ forecastLog' = forecastLog \cup
       {[patientDataId |-> 0, status |-> 500, json |-> [error |-> "ZodError"]]}
  /\ UNCHANGED <<riskVars, users, patientData, iopPredictions, awaiting, clientVars,
               callVars, homeVars>>

\* python.on('close') with exit code 0 and JSON on stdout: the promise
\* resolves, the handler stores the predictions and answers with the forecast
PythonSucceeds(id, out) ==
  /\ id \in awaiting
  /\ out.code = 0 /\ JsonParses(out.stdout)
  /\ iopPredictions' = createIopPredictions(predictionData(id, out.stdout.predictions))
  /\ awaiting' = awaiting \ {id}
  /\ forecastLog' = forecastLog \cup
       {[patientDataId |-> id, status |-> 200, json |-> out.stdout]}
  /\ UNCHANGED <<riskVars, users, patientData, clientVars,
               callVars, homeVars>>

\* python.on('close') with a non-zero code, or with stdout that is not JSON:
\* the promise rejects and the catch answers 500
PythonFails(id, out) ==
  /\ id \in awaiting
  /\ out.code # 0 \/ ~JsonParses(out.stdout)
  /\ awaiting' = awaiting \ {id}
  /\ forecastLog' = forecastLog \cup
       {[patientDataId |-> id, status |-> 500,
         json |-> [error |-> IF out.code # 0 THEN "Python script failed"
                            ELSE "Failed to parse Python output"]]}
  /\ UNCHANGED <<riskVars, users, patientData, iopPredictions, clientVars,
               callVars, homeVars>>

Next == CalculateRisk \/ CalculateRiskRejects

Spec == Init /\ [][Next]_vars

\* the same handler on the slider bodies
SpecSliders == InitSliders /\ [][CalculateRisk]_vars

\* both endpoints, request after request, over one store; the python3
\* process of a request was given the record of that request
NextServer ==
  \/ CalculateRisk
  \/ CalculateRiskRejects
  \/ NextRiskRequest
  \/ \E b \in ServerBodies : PredictIopStarts(b)
  \/ \E b \in ServerBodies : PredictIopRejects(b)
  \/ \E id \in awaiting :
       \E out \in PythonOutcomes(patientData[id].data) : PythonSucceeds(id, out)
  \/ \E id \in awaiting :
       \E out \in PythonOutcomes(patientData[id].data) : PythonFails(id, out)

SpecServer == InitServer /\ [][NextServer]_vars

\* the records of the forecast specification: the default and the maxed
\* record, a dose just given, a dose two hours ago, the longest time since
\* a dose, a record that averages 16.0 mmHg, and a record whose score is a
\* rounding error below 20
ForecastRecords ==
  {DefaultFormData,
   MaxedRecord,
   [DefaultFormData EXCEPT !.lastDropHours = 0],
   [DefaultFormData EXCEPT !.lastDropHours = 2],
   [DefaultFormData EXCEPT !.lastDropHours = MaxLastDropHours],
   [DefaultFormData EXCEPT !.age = 51],
   PatientRecord(18, 10, 4, 1, <<120, 80>>, "none", "none", 28)}

ForecastBodies ==
  ForecastRecords \cup {[f \in RequiredFields \ {"lastDropHours"} |-> DefaultFormData[f]]}

InitForecast == InitRequest({DefaultFormData})

\* POST /api/predict-iop alone, its requests overlapping
NextForecast ==
  \/ \E b \in ForecastBodies : PredictIopStarts(b)
  \/ \E b \in ForecastBodies : PredictIopRejects(b)
  \/ \E id \in awaiting :
       \E out \in PythonOutcomes(patientData[id].data) : PythonSucceeds(id, out)
  \/ \E id \in awaiting :
       \E out \in PythonOutcomes(patientData[id].data) : PythonFails(id, out)

SpecForecast == InitForecast /\ [][NextForecast]_vars

\* bodies the schema accepts although a number lies outside its documented
\* range or a text is none of the documented values: sleepQuality is out of
\* 1..10 in every one of them
UnvalidatedBodies ==
  {PatientRecord(a, sl, st, pa, c[1], c[2], c[3], ld) :
     a \in {-5, 0, 50, 150}, sl \in {0, 11, 25}, st \in {-4, 0, 11, 40},
     pa \in {0, 11, 30},
     c \in {<<<<120, 80>>, "none", "none">>, <<<<-10, 300>>, "unknown", "several">>,
            <<<<0, 0>>, "type2", "multiple">>},
     ld \in {-6, 0, 25, 500}}

InitUnvalidated == InitRequest(UnvalidatedBodies \cup MalformedBodies)

\* POST /api/calculate-risk on bodies no form would send
SpecUnvalidated == InitUnvalidated /\ [][Next]_vars

(***************************************************************************)
(* The client: PatientForm, which sends the form data to POST              *)
(* /api/calculate-risk 300 ms after the last edit, and RiskAssessment,     *)
(* which shows the result of the riskUpdate event it received last.        *)
(***************************************************************************)
\* the values the form takes in the model
FormRecords ==
  {DefaultFormData,
   [DefaultFormData EXCEPT !.stressLevel = 10],
   [DefaultFormData EXCEPT !.sleepQuality = 1]}

\* the form sends at most this many requests in the model
MaxRequests == 3

\* handleInputChange / handleSliderChange: setFormData, and the effect on
\* [formData] clears the pending timeout and sets a new one
EditForm(data) ==
  /\ formData' = data
  /\ debounce' = TRUE
  /\ UNCHANGED <<riskVars, storeVars, inFlight, riskData, sent, failed,
               callVars, homeVars>>

\* the timeout fires: calculateRealTimeRisk() of PatientForm sends the
\* current formData and awaits the response
DebounceFires ==
  /\ debounce
  /\ sent < MaxRequests
  /\ debounce' = FALSE
  /\ sent' = sent + 1
  /\ inFlight' = inFlight \cup {[seq |-> sent + 1, formData |-> formData]}
  /\ UNCHANGED <<riskVars, storeVars, formData, riskData, failed,
               callVars, homeVars>>

\* the response to one of the requests in flight arrives, whichever the
\* network delivers first: the form dispatches riskUpdate with the result
\* the server computed for the data of that request, and handleRiskUpdate
\* of RiskAssessment stores it
RiskResponseArrives(request) ==
  /\ request \in inFlight
  /\ inFlight' = inFlight \ {request}
  /\ riskData' = calculateRealTimeRisk(request.formData)
  /\ UNCHANGED <<riskVars, storeVars, formData, debounce, sent, failed,
               callVars, homeVars>>

\* apiRequest rejects: the catch logs and nothing is dispatched
RiskRequestFails(request) ==
  /\ request \in inFlight
  /\ inFlight' = inFlight \ {request}
  /\ failed' = TRUE
  /\ UNCHANGED <<riskVars, storeVars, formData, debounce, riskData, sent,
               callVars, homeVars>>

InitClient == InitRequest({DefaultFormData})

NextClient ==
  \/ \E data \in FormRecords : EditForm(data)
  \/ DebounceFires
  \/ \E request \in inFlight : RiskResponseArrives(request)
  \/ \E request \in inFlight : RiskRequestFails(request)

SpecClient == InitClient /\ [][NextClient]_vars

(***************************************************************************)
(* Properties of calculateRealTimeRisk.  Percentages and pressures are in  *)
(* tenths, as in the returned record.                                      *)
(***************************************************************************)
Responded == response.status = 200

\* the documented ranges of the numeric fields
InDocumentedRanges(b) ==
  /\ b.age \in 18..100
  /\ b.sleepQuality \in 1..10
  /\ b.stressLevel \in 1..10
  /\ b.physicalActivity \in 1..10
  /\ b.lastDropHours >= 0

\* C1: for a record within the documented ranges, the risk_percentage
\* returned lies in [0, 100].
C1_PercentageInRange ==
  (Responded /\ InDocumentedRanges(body))
    => response.json.risk_percentage \in 0..1000

\* a record in range whose score the upper clamp cut down to 100
C1_Witness ==
  /\ Responded
  /\ InDocumentedRanges(body)
  /\ FLt(F_100, frame.riskScore)
  /\ response.json.risk_percentage = 1000

\* the threshold table of the specification, on a percentage in tenths
LevelOfPercentage(p) ==
  IF p < 200 THEN "low"
  ELSE IF p < 400 THEN "moderate"
  ELSE IF p < 700 THEN "high"
  ELSE "critical"

\* C2: the risk_level returned agrees with the risk_percentage returned in
\* the same result under the table [0,20) low, [20,40) moderate, [40,70)
\* high, [70,100] critical; 20.0 is moderate and 19.9 is low.
C2_LevelAgreesWithPercentage ==
  Responded
    => response.json.risk_level = LevelOfPercentage(response.json.risk_percentage)

\* the contributions of the specification's table, summed exactly, in tenths
Max2(a, b) == IF a > b THEN a ELSE b

TabulatedBloodPressure(b) ==
  IF b.systolicBP > 140 \/ b.diastolicBP > 90 THEN 80
  ELSE IF b.systolicBP > 130 \/ b.diastolicBP > 80 THEN 40
  ELSE 0

TabulatedOthers(b) ==
    Max2(0, (b.age - 40) * 5)
  + (10 - b.sleepQuality) * 20
  + b.stressLevel * 15
  + (10 - b.physicalActivity) * 12
  + (CASE b.diabetesStatus \in {"type1", "type2"} -> 120
       [] b.diabetesStatus = "prediabetes" -> 60
       [] b.diabetesStatus = "none" -> 0)
  + (CASE b.familyHistory = "multiple" -> 150
       [] b.familyHistory \in {"parent", "sibling"} -> 80
       [] b.familyHistory = "none" -> 0)
  + (IF b.lastDropHours > 24 THEN (b.lastDropHours - 24) * 8 ELSE 0)

TabulatedScore(b) == TabulatedOthers(b) + TabulatedBloodPressure(b)

\* C3: the raw score is the sum of the eight tabulated contributions (to the
\* one decimal the function reports) and risk_percentage is that sum clamped
\* to [0, 100].
C3_ScoreIsTabulatedSum ==
  Responded
    => /\ ToFixed1(frame.riskScore) = TabulatedScore(body)
       /\ response.json.risk_percentage = Min2(1000, Max2(0, TabulatedScore(body)))

\* a record with all eight contributions at work and no clamp
C3_Witness ==
  /\ Responded
  /\ body.age > 40 /\ body.sleepQuality < 10 /\ body.physicalActivity < 10
  /\ body.systolicBP > 140 /\ body.diabetesStatus = "prediabetes"
  /\ body.familyHistory = "sibling" /\ body.lastDropHours > 24
  /\ response.json.risk_percentage < 1000

\* what blood pressure added to the score of the request
BloodPressureShare == ToFixed1(frame.riskScore) - TabulatedOthers(body)

\* C4: blood pressure contributes exactly one of 0, 4, 8, first match: 8 when
\* systolic > 140 or diastolic > 90, else 4 when systolic > 130 or diastolic
\* > 80, else 0; strict comparisons, so 140/90 gives 4 and 130/80 gives 0.
C4_BloodPressureFirstMatch ==
  Responded
    => /\ BloodPressureShare \in {0, 40, 80}
       /\ BloodPressureShare = TabulatedBloodPressure(body)
       /\ (body.systolicBP = 140 /\ body.diastolicBP = 90) => BloodPressureShare = 40
       /\ (body.systolicBP = 130 /\ body.diastolicBP = 80) => BloodPressureShare = 0
       /\ (body.systolicBP > 140 \/ body.diastolicBP > 90) => BloodPressureShare = 80

\* the boundary reading 140/90, which satisfies the second test only
C4_Witness ==
  /\ Responded
  /\ body.systolicBP = 140 /\ body.diastolicBP = 90
  /\ BloodPressureShare = 40

\* 14.0 * (1 + (p / 100) * 0.6) in binary64, to one decimal, for the number p
\* that risk_percentage (in tenths) stands for
IopOfReturnedPercentage(tenths) ==
  ToFixed1(FMul(F_14, FAdd(F_1, FMul(FDiv(Lit(tenths, 10), F_100), F_0_6))))

\* C5: average_predicted_iop is 14.0 * (1 + (riskPercentage/100) * 0.6) to
\* one decimal, for the risk_percentage returned in the same result, and so
\* lies in [14.0, 22.4].
C5_AverageIopFormula ==
  Responded
    => /\ response.json.average_predicted_iop
            = IopOfReturnedPercentage(response.json.risk_percentage)
       /\ response.json.average_predicted_iop \in 140..224

\* a result whose returned percentage is not the unrounded one it was
\* computed from
C5_Witness ==
  /\ Responded
  /\ frame.riskPercentage # Lit(response.json.risk_percentage, 10)
  /\ response.json.average_predicted_iop > 140

\* the results for the records that differ from the request in one slider
WithStress(st) == calculateRealTimeRisk([body EXCEPT !.stressLevel = st])
WithSleep(sl)  == calculateRealTimeRisk([body EXCEPT !.sleepQuality = sl])

\* C6: a higher stressLevel, all else equal, never lowers risk_percentage,
\* and neither does a lower sleepQuality.
C6_Monotone ==
  Responded
    => /\ \A st \in SliderRange :
            st > body.stressLevel
              => WithStress(st).risk_percentage >= response.json.risk_percentage
       /\ \A sl \in SliderRange :
            sl < body.sleepQuality
              => WithSleep(sl).risk_percentage >= response.json.risk_percentage

\* a request that more stress and less sleep both strictly raise
C6_Witness ==
  /\ Responded
  /\ body.stressLevel = 4 /\ body.sleepQuality = 7
  /\ WithStress(5).risk_percentage > response.json.risk_percentage
  /\ WithSleep(6).risk_percentage > response.json.risk_percentage

\* C7: the default record gets risk_percentage 23.0, risk_level moderate and
\* average_predicted_iop 15.9.
C7_DefaultRecord ==
  (Responded /\ body = DefaultFormData)
    => /\ response.json.risk_percentage = 230
       /\ response.json.risk_level = "moderate"
       /\ response.json.average_predicted_iop = 159

C7_Witness == Responded /\ body = DefaultFormData

\* C8: a raw score above 100 (128 for the maxed record) gives
\* risk_percentage exactly 100 and risk_level critical.
C8_ClampsAtHundred ==
  /\ (Responded /\ FLt(F_100, frame.riskScore))
       => /\ response.json.risk_percentage = 1000
          /\ response.json.risk_level = "critical"
  /\ (Responded /\ body = MaxedRecord)
       => /\ frame.riskScore = FromInt(128)
          /\ response.json.risk_percentage = 1000

C8_Witness == Responded /\ body = MaxedRecord /\ response.json.risk_level = "critical"

\* the four fixed messages, by level
MessageOfLevel ==
  [l \in {"low", "moderate", "high", "critical"} |->
     CASE l = "low" -> Msg_low
       [] l = "moderate" -> Msg_moderate
       [] l = "high" -> Msg_high
       [] l = "critical" -> Msg_critical]

\* C10: the message is a function of risk_level alone: four fixed messages,
\* one per level, no level outside the four, no message of another level.
C10_MessageByLevel ==
  /\ Cardinality({MessageOfLevel[l] : l \in DOMAIN MessageOfLevel}) = 4
  /\ Responded
       => /\ response.json.risk_level \in DOMAIN MessageOfLevel
          /\ response.json.message = MessageOfLevel[response.json.risk_level]

C10_Witness ==
  /\ Responded
  /\ response.json.risk_level = "high"
  /\ response.json.message = Msg_high

Forecasts == {r \in forecastLog : r.status = 200}

\* the record of the request a response of forecastLog answers
RecordOf(r) == patientData[r.patientDataId].data

\* C11: every forecast returned with status 200 has exactly 24 predictions,
\* with the hours 0, 1, ..., 23 in that order: no duplicate, no gap.
C11_TwentyFourHours ==
  \A r \in Forecasts :
    /\ Len(r.json.predictions) = 24
    /\ \A i \in 1..Len(r.json.predictions) : r.json.predictions[i].hour = i - 1

\* forecasts returned for a dose just given and for the longest time since one
C11_Witness ==
  /\ \E r \in Forecasts : RecordOf(r).lastDropHours = 0
  /\ \E r \in Forecasts : RecordOf(r).lastDropHours = MaxLastDropHours

\* the predicted pressures of a forecast, and their total
IopValues(forecast) ==
  {forecast.predictions[i].predicted_iop : i \in 1..Len(forecast.predictions)}

RECURSIVE TotalIop(_)
TotalIop(predictions) ==
  IF predictions = <<>> THEN 0
  ELSE Head(predictions).predicted_iop + TotalIop(Tail(predictions))

\* C12: peak_iop is the highest predicted_iop of the 24 predictions,
\* trough_iop the lowest, and average_iop their mean rounded to one decimal
\* (at most half a tenth away from the mean).
C12_CircadianAnalysis ==
  \A r \in Forecasts :
    LET analysis == r.json.circadian_analysis
        n        == Len(r.json.predictions)
        gap      == n * analysis.average_iop - TotalIop(r.json.predictions)
    IN  /\ analysis.peak_iop \in IopValues(r.json)
        /\ \A v \in IopValues(r.json) : v <= analysis.peak_iop
        /\ analysis.trough_iop \in IopValues(r.json)
        /\ \A v \in IopValues(r.json) : v >= analysis.trough_iop
        /\ 2 * gap <= n /\ 2 * gap >= -n

\* a forecast whose mean is not the middle of its peak and its trough
C12_Witness ==
  \E r \in Forecasts :
    LET analysis == r.json.circadian_analysis
    IN  /\ analysis.peak_iop > analysis.trough_iop
        /\ 2 * analysis.average_iop < analysis.peak_iop + analysis.trough_iop - 1

\* the hours of a forecast that have the lowest predicted_iop
LowestHours(forecast) ==
  {forecast.predictions[i].hour : i \in
     {j \in 1..Len(forecast.predictions) :
        \A v \in IopValues(forecast) : forecast.predictions[j].predicted_iop <= v}}

\* C13: the hour that optimal_drop_time names (as OptimalTiming reads it) is
\* an hour of the lowest predicted_iop, and the earliest of them when
\* several hours share it.
C13_OptimalDropTime ==
  \A r \in Forecasts :
    LET optimalHour == OptimalTimingHour(r.json.optimal_drop_time)
    IN  /\ optimalHour \in LowestHours(r.json)
        /\ \A h \in LowestHours(r.json) : optimalHour <= h

\* a forecast in which two hours share the lowest pressure
C13_Witness ==
  \E r \in Forecasts :
    /\ Cardinality(LowestHours(r.json)) > 1
    /\ OptimalTimingHour(r.json.optimal_drop_time) \in LowestHours(r.json)

\* the level a bar colour and a tooltip text of the chart stand for
LevelOfBarColor ==
  [c \in {"bg-chart-1", "bg-chart-2", "bg-chart-3", "bg-destructive"} |->
     CASE c = "bg-chart-1" -> "low"
       [] c = "bg-chart-2" -> "moderate"
       [] c = "bg-chart-3" -> "high"
       [] c = "bg-destructive" -> "critical"]

LevelOfRiskText ==
  [t \in {"Low Risk", "Moderate Risk", "High Risk", "Critical Risk"} |->
     CASE t = "Low Risk" -> "low"
       [] t = "Moderate Risk" -> "moderate"
       [] t = "High Risk" -> "high"
       [] t = "Critical Risk" -> "critical"]

\* the table in mmHg, on a pressure in tenths
LevelOfPressure(iop) ==
  CASE iop < 150 -> "low"
    [] iop >= 150 /\ iop < 180 -> "moderate"
    [] iop >= 180 /\ iop < 210 -> "high"
    [] iop >= 210 -> "critical"

\* every prediction of every forecast returned
ReturnedPredictions ==
  UNION {{r.json.predictions[i] : i \in 1..Len(r.json.predictions)} : r \in Forecasts}

C15_SameAssessment ==
  \A r \in Forecasts :
    LET scored == calculateRealTimeRisk(RecordOf(r))
    IN  /\ r.json.risk_assessment.level = scored.risk_level
        /\ r.json.risk_assessment.risk_percentage = scored.risk_percentage

(***************************************************************************)
(* Properties of the validation and of calculateRealTimeRisk on records    *)
(* outside the documented ranges.                                          *)
(***************************************************************************)
\* C16: calculateRealTimeRisk is invoked only on records whose numeric
\* fields are all present and within their documented ranges: a body that
\* violates a range is rejected before scoring, so a body answered with a
\* risk result has every numeric field present and in range.
C16_ValidatedBeforeScoring ==
  Responded => (SchemaAccepts(body) /\ InDocumentedRanges(body))

\* the four risk levels
RiskLevels == {"low", "moderate", "high", "critical"}

\* C17: calculateRealTimeRisk is total: for a record with integer fields
\* out of range (negative age, sleepQuality or physicalActivity above 10,
\* negative stressLevel, unknown enum strings) it returns a result with
\* risk_percentage in [0, 100], risk_level one of the four levels and
\* average_predicted_iop in [14.0, 22.4].
C17_TotalOnGarbage ==
  (response # NoResponse /\ SchemaAccepts(body))
    => /\ response.status = 200
       /\ response.json.risk_percentage \in 0..1000
       /\ response.json.risk_level \in RiskLevels
       /\ response.json.average_predicted_iop \in 140..224

\* a record out of range in every numeric field and with unknown enum
\* strings, whose raw score is negative
C17_Witness ==
  /\ Responded
  /\ body.age < 0 /\ body.sleepQuality > 10 /\ body.stressLevel < 0
  /\ body.physicalActivity > 10 /\ body.lastDropHours < 0
  /\ body.diabetesStatus = "unknown" /\ body.familyHistory = "several"
  /\ FLt(frame.riskScore, F_0)
  /\ response.json.risk_percentage = 0
  /\ response.json.average_predicted_iop = 140

(***************************************************************************)
(* Properties of the server under overlapping requests.                    *)
(***************************************************************************)
\* what POST /api/calculate-risk answers to each body of the server
\* specification when no other request runs
AloneRiskResponse ==
  [b \in ServerBodies |->
     IF SchemaAccepts(b)
     THEN [status |-> 200, json |-> calculateRealTimeRisk(b)]
     ELSE [status |-> 400, json |-> [error |-> "ZodError"]]]

\* what POST /api/predict-iop can answer to a record when no other request
\* runs: the forecast for the record, or one of the two failures of the
\* python3 process
AloneForecastResponses(data) ==
  {[status |-> 200, json |-> ForecastEngineCompute(data)],
   [status |-> 500, json |-> [error |-> "Python script failed"]],
   [status |-> 500, json |-> [error |-> "Failed to parse Python output"]]}

\* the rows of iopPredictions that carry the id of a patient record
RowsOf(id) ==
  {iopPredictions[i] : i \in {j \in 1..Len(iopPredictions) :
                                iopPredictions[j].patientDataId = id}}

\* C18: under any interleaving of POST /api/predict-iop and POST
\* /api/calculate-risk requests, each response is the one the request would
\* get alone, and the predictions stored by a request carry the id of the
\* patient record that request created: the rows with the id of a record
\* are the 24 predictions of the forecast returned for that record, and a
\* record without a returned forecast has no row.
C18_RequestsIndependent ==
  /\ \A x \in riskLog : x.response = AloneRiskResponse[x.body]
  /\ \A r \in forecastLog :
       r.patientDataId # 0 =>
         [status |-> r.status, json |-> r.json] \in AloneForecastResponses(RecordOf(r))
  /\ \A id \in 1..Len(patientData) :
       IF \E r \in Forecasts : r.patientDataId = id
       THEN \A r \in Forecasts :
              r.patientDataId = id =>
                {[hour |-> row.hour, predicted_iop |-> row.predictedIop,
                  risk_level |-> row.riskLevel] : row \in RowsOf(id)}
                  = {r.json.predictions[i] : i \in 1..Len(r.json.predictions)}
       ELSE RowsOf(id) = {}
  /\ \A i \in 1..Len(iopPredictions) :
       iopPredictions[i].patientDataId \in 1..Len(patientData)

\* two predict-iop requests for different records overlapped, the later one
\* was answered first, and a calculate-risk request was answered in between
C18_Witness ==
  /\ Len(patientData) = 2
  /\ patientData[1].data # patientData[2].data
  /\ Len(iopPredictions) = 48
  /\ iopPredictions[1].patientDataId = 2
  /\ iopPredictions[48].patientDataId = 1
  /\ \E x \in riskLog : x.response.status = 200

(***************************************************************************)
(* Properties of the live risk feedback of the client.                     *)
(***************************************************************************)
\* what the server answers to each value of the form
RiskOfForm == [data \in FormRecords |-> calculateRealTimeRisk(data)]

\* no timeout is pending, no request is in flight, at least one was sent
\* and none failed
FeedbackSettled == ~debounce /\ inFlight = {} /\ sent > 0 /\ ~failed

\* C19: once the edits have stopped, the debounce timeout has fired and
\* every request has completed successfully, RiskAssessment shows the risk
\* computed for the latest form data, in whatever order the responses
\* arrived.
C19_NeverStale == FeedbackSettled => riskData = RiskOfForm[formData]

(***************************************************************************)
(* Properties of POST /api/calculate-risk as a step of the server.         *)
(***************************************************************************)
\* C20: a POST /api/calculate-risk request, whatever its body, leaves the
\* users, patientData and iopPredictions maps as they were; a body that
\* fails validation is answered with status 400 and an error field, a valid
\* body with the risk result.
C20_NoSideEffects ==
  [][(response = NoResponse /\ response' # NoResponse)
       => /\ UNCHANGED <<users, patientData, iopPredictions>>
          /\ IF SchemaAccepts(body)
             THEN response' = AloneRiskResponse[body]
             ELSE response'.status = 400 /\ DOMAIN response'.json = {"error"}
     ]_<<response, users, patientData, iopPredictions>>

\* the endpoint has answered a valid and an invalid body while the store
\* held a record and a predict-iop request was pending
C20_Witness ==
  /\ response.status = 400
  /\ \E x \in riskLog : x.response.status = 200
  /\ Len(patientData) > 0
  /\ awaiting # {}

(***************************************************************************)
(* MemStorage called directly: the seven methods of IStorage, in any       *)
(* order.                                                                  *)
(***************************************************************************)
\* MemStorage.createUser: the map after the insertion
createUser(insertUser) ==
  Append(users, [id       |-> Len(users) + 1,
                 username |-> insertUser.username,
                 password |-> insertUser.password])

\* MemStorage.getUser: this.users.get(id); undefined is the empty sequence
getUser(id) == SelectSeq(users, LAMBDA user : user.id = id)

\* MemStorage.getUserByUsername: the first value of the map with the name
getUserByUsername(username) ==
  LET found == SelectSeq(users, LAMBDA user : user.username = username)
  IN  IF found = <<>> THEN <<>> ELSE <<Head(found)>>

\* MemStorage.getPatientData: this.patientData.get(id)
getPatientData(id) == SelectSeq(patientData, LAMBDA record : record.id = id)

\* MemStorage.getIopPredictionsByPatientId: the values of the map, in
\* insertion order, filtered
getIopPredictionsByPatientId(patientDataId) ==
  SelectSeq(iopPredictions,
            LAMBDA prediction : prediction.patientDataId = patientDataId)

\* the model makes at most this many creating calls
MaxCalls == 3

\* the arguments of the calls: two users of one name, ids that were and ids
\* that were not handed out, and lists of predictions for one patient, for
\* two patients, and with one prediction twice
InsertUsers ==
  {[username |-> "ann", password |-> "a1"],
   [username |-> "ann", password |-> "a2"],
   [username |-> "bob", password |-> "b1"]}

Usernames == {"ann", "bob", "eve"}

StoreIds == 1..(MaxCalls + 1)

InsertPrediction(p, h) ==
  [patientDataId |-> p, hour |-> h, predictedIop |-> 159, riskLevel |-> "moderate"]

InsertPredictionLists ==
  {<<>>,
   <<InsertPrediction(1, 0)>>,
   <<InsertPrediction(2, 0), InsertPrediction(1, 1)>>,
   <<InsertPrediction(1, 0), InsertPrediction(1, 0)>>}

\* the rest of the state, which no method of MemStorage touches
outsideStore == <<riskVars, awaiting, forecastLog, unanswered, clientVars, homeVars>>

\* what a call leaves in returned
Return(op, arg, result) == [op |-> op, arg |-> <<arg>>, result |-> result]

\* the creating calls are logged with what they returned
CreateUserCall(insertUser) ==
  /\ Len(calls) < MaxCalls
  /\ users' = createUser(insertUser)
  /\ returned' = Return("createUser", insertUser, <<users'[Len(users')]>>)
  /\ calls' = Append(calls, returned')
  /\ UNCHANGED <<patientData, iopPredictions, outsideStore>>

CreatePatientDataCall(data) ==
  /\ Len(calls) < MaxCalls
  /\ patientData' = createPatientData(data)
  /\ returned' = Return("createPatientData", data,
                        <<patientData'[Len(patientData')]>>)
  /\ calls' = Append(calls, returned')
  /\ UNCHANGED <<users, iopPredictions, outsideStore>>

CreateIopPredictionsCall(predictions) ==
  /\ Len(calls) < MaxCalls
  /\ iopPredictions' = createIopPredictions(predictions)
  /\ returned' = Return("createIopPredictions", predictions,
                        createdPredictions(predictions))
  /\ calls' = Append(calls, returned')
  /\ UNCHANGED <<users, patientData, outsideStore>>

GetUserCall(id) ==
  /\ returned' = Return("getUser", id, getUser(id))
  /\ UNCHANGED <<users, patientData, iopPredictions, calls, outsideStore>>

GetUserByUsernameCall(username) ==
  /\ returned' = Return("getUserByUsername", username, getUserByUsername(username))
  /\ UNCHANGED <<users, patientData, iopPredictions, calls, outsideStore>>

GetPatientDataCall(id) ==
  /\ returned' = Return("getPatientData", id, getPatientData(id))
  /\ UNCHANGED <<users, patientData, iopPredictions, calls, outsideStore>>

GetIopPredictionsByPatientIdCall(patientDataId) ==
  /\ returned' = Return("getIopPredictionsByPatientId", patientDataId,
                        getIopPredictionsByPatientId(patientDataId))
  /\ UNCHANGED <<users, patientData, iopPredictions, calls, outsideStore>>

NextStore ==
  \/ \E insertUser \in InsertUsers : CreateUserCall(insertUser)
  \/ \E data \in {DefaultFormData, MaxedRecord} : CreatePatientDataCall(data)
  \/ \E predictions \in InsertPredictionLists : CreateIopPredictionsCall(predictions)
  \/ \E id \in StoreIds : GetUserCall(id)
  \/ \E username \in Usernames : GetUserByUsernameCall(username)
  \/ \E id \in StoreIds : GetPatientDataCall(id)
  \/ \E id \in StoreIds : GetIopPredictionsByPatientIdCall(id)

InitStore == InitRequest({DefaultFormData})

SpecStore == InitStore /\ [][NextStore]_vars

(***************************************************************************)
(* Claims about MemStorage.                                                *)
(***************************************************************************)
\* the calls of one method made so far, in order
CallsOf(op) == SelectSeq(calls, LAMBDA c : c.op = op)

\* C21: getPatientData(id) returns the record an earlier createPatientData(d)
\* returned under that id, which carries the fields of d and that id, and
\* returns undefined for an id no createPatientData returned; every record
\* a createPatientData returned is in the store unchanged at all later
\* times, under an id of its own.
C21_PatientRecordRoundTrip ==
  LET made == CallsOf("createPatientData")
  IN  /\ \A i \in DOMAIN made :
           /\ made[i].result[1].data = made[i].arg[1]
           /\ getPatientData(made[i].result[1].id) = made[i].result
           /\ \A j \in DOMAIN made :
                made[i].result[1].id = made[j].result[1].id => i = j
      /\ returned.op = "getPatientData" =>
           IF \E i \in DOMAIN made : made[i].result[1].id = returned.arg[1]
           THEN \E i \in DOMAIN made :
                  /\ made[i].result[1].id = returned.arg[1]
                  /\ returned.result = made[i].result
                  /\ returned.result[1].data = made[i].arg[1]
           ELSE returned.result = <<>>

\* the first record read back after a second one, with other data, was stored
C21_Witness ==
  /\ returned.op = "getPatientData"
  /\ returned.arg = <<1>>
  /\ Len(patientData) = 2
  /\ patientData[2].data # patientData[1].data
  /\ returned.result = <<[id |-> 1, data |-> patientData[1].data]>>

\* the lists the calls returned, joined in the order of the calls
RECURSIVE Joined(_)
Joined(made) ==
  IF made = <<>> THEN <<>> ELSE Head(made).result \o Joined(Tail(made))

EverCreated == Joined(CallsOf("createIopPredictions"))

\* C22: createIopPredictions returns a list as long as its input, element i
\* being input i with an id, and no id is handed out twice over all calls;
\* getIopPredictionsByPatientId(p) returns the predictions ever created
\* with patientDataId = p, each once and no other, in order of insertion.
C22_PredictionsByPatient ==
  LET made == CallsOf("createIopPredictions")
  IN  /\ \A k \in DOMAIN made :
           /\ Len(made[k].result) = Len(made[k].arg[1])
           /\ \A i \in DOMAIN made[k].result :
                [f \in {"patientDataId", "hour", "predictedIop", "riskLevel"}
                   |-> made[k].result[i][f]] = made[k].arg[1][i]
      /\ \A i, j \in DOMAIN EverCreated :
           EverCreated[i].id = EverCreated[j].id => i = j
      /\ returned.op = "getIopPredictionsByPatientId" =>
           returned.result =
             SelectSeq(EverCreated, LAMBDA c : c.patientDataId = returned.arg[1])

\* the predictions of patient 1 read back: one from a list that began with
\* a prediction of patient 2, then one from a later list
C22_Witness ==
  /\ returned.op = "getIopPredictionsByPatientId"
  /\ returned.arg = <<1>>
  /\ Len(CallsOf("createIopPredictions")) = 2
  /\ Len(iopPredictions) = 3
  /\ iopPredictions[1].patientDataId = 2
  /\ Len(returned.result) = 2
  /\ returned.result[1].hour = 1 /\ returned.result[1].id = 2
  /\ returned.result[2].hour = 0 /\ returned.result[2].id = 3

\* C23: no two stored users have the same username.
C23_UsernamesUnique ==
  \A i, j \in DOMAIN users : users[i].username = users[j].username => i = j

(***************************************************************************)
(* POST /api/predict-iop when python3 may fail to start.                   *)
(***************************************************************************)
\* spawn() cannot start python3 (ENOENT, EACCES, EAGAIN, EMFILE, ENFILE):
\* the child emits 'error' on the next tick.  callPythonModel listens for
\* 'close' only, and an 'error' event without a listener is thrown by
\* emit(): the exception leaves the event loop before 'close' is emitted,
\* so neither resolve nor reject is ever called for this request, whether
\* the process ends on the uncaught exception or not
PythonSpawnErrors(id) ==
  /\ id \in awaiting
  /\ awaiting' = awaiting \ {id}
  /\ unanswered' = unanswered \cup {id}
  /\ UNCHANGED <<riskVars, users, patientData, iopPredictions, forecastLog,
                 calls, returned, clientVars, homeVars>>

\* the outcomes of the python3 process for each record, tabulated
OutcomesOfRecord == [data \in ForecastRecords |-> PythonOutcomes(data)]

\* python.on('close') for the request of one patient record
PythonCloses(id) ==
  /\ id \in awaiting
  /\ \E out \in OutcomesOfRecord[patientData[id].data] :
       PythonSucceeds(id, out) \/ PythonFails(id, out)

NextPredict ==
  \/ \E b \in ForecastBodies : PredictIopStarts(b)
  \/ \E b \in ForecastBodies : PredictIopRejects(b)
  \/ \E id \in awaiting :
       \E out \in PythonOutcomes(patientData[id].data) : PythonSucceeds(id, out)
  \/ \E id \in awaiting :
       \E out \in PythonOutcomes(patientData[id].data) : PythonFails(id, out)
  \/ \E id \in awaiting : PythonSpawnErrors(id)

\* a python3 process that started exits, and the event loop then runs the
\* 'close' listener
SpecPredict ==
  /\ InitForecast
  /\ [][NextPredict]_vars
  /\ \A id \in 1..MaxPatients : WF_vars(PythonCloses(id))

(***************************************************************************)
(* Claims about POST /api/predict-iop.                                     *)
(***************************************************************************)
\* the responses sent to the request that stored patient record id
AnswersTo(id) == {r \in forecastLog : r.patientDataId = id}

\* C24: every POST /api/predict-iop request is answered, once: with 200 and
\* the forecast or with 500 and an error field, at the latest when the
\* python3 process has closed or has failed to start.
C24_AnsweredOnce ==
  \A id \in 1..MaxPatients :
    (Len(patientData) >= id) ~>
      \E r \in forecastLog :
        /\ AnswersTo(id) = {r}
        /\ \/ r.status = 200 /\ "predictions" \in DOMAIN r.json
           \/ r.status = 500 /\ DOMAIN r.json = {"error"}

\* a stored prediction as the response writes it
AsReturned(row) ==
  [hour |-> row.hour, predicted_iop |-> row.predictedIop, risk_level |-> row.riskLevel]

\* C25: every stored prediction carries the id of a stored patient record;
\* while a request awaits the model its patient record is stored and has no
\* prediction, and no response has been sent for it; and when a request
\* has been answered 200, the predictions stored for its patient record are
\* those of the response, hour by hour in the same order.
C25_ReferentialIntegrity ==
  /\ \A i \in DOMAIN iopPredictions :
       getPatientData(iopPredictions[i].patientDataId) # <<>>
  /\ \A id \in awaiting \cup unanswered :
       /\ getPatientData(id) # <<>>
       /\ getIopPredictionsByPatientId(id) = <<>>
       /\ AnswersTo(id) = {}
  /\ \A r \in forecastLog :
       r.status = 200 =>
         LET stored == getIopPredictionsByPatientId(r.patientDataId)
         IN  /\ getPatientData(r.patientDataId) # <<>>
             /\ Len(stored) = Len(r.json.predictions)
             /\ \A i \in DOMAIN stored : AsReturned(stored[i]) = r.json.predictions[i]

\* a request answered 200 whose 24 predictions are stored behind those of
\* the request that came after it
C25_Witness ==
  /\ Len(patientData) = 2
  /\ awaiting = {}
  /\ \E r \in forecastLog : r.status = 200 /\ r.patientDataId = 1
  /\ \E r \in forecastLog : r.status = 200 /\ r.patientDataId = 2
  /\ Len(iopPredictions) = 2 * HoursPerDay
  /\ iopPredictions[1].patientDataId = 2
  /\ iopPredictions[HoursPerDay + 1].patientDataId = 1
  /\ iopPredictions[HoursPerDay + 1].hour = 0
  /\ iopPredictions[HoursPerDay + 2].predictedIop # iopPredictions[HoursPerDay + 1].predictedIop

\* C26: a request whose model invocation failed is answered 500, and its
\* patient record stays in the store with no prediction; a request whose
\* body fails validation is answered 500 and stores nothing, so that every
\* stored record belongs to a request that passed validation and every
\* stored prediction to a request answered 200.
C26_FailedRequestNotRolledBack ==
  /\ \A r \in forecastLog :
       r.status # 200 =>
         /\ r.status = 500
         /\ DOMAIN r.json = {"error"}
         /\ r.patientDataId # 0 =>
              /\ Len(getPatientData(r.patientDataId)) = 1
              /\ getIopPredictionsByPatientId(r.patientDataId) = <<>>
         /\ r.patientDataId = 0 <=> r.json.error = "ZodError"
  /\ {patientData[i].id : i \in DOMAIN patientData}
       = awaiting \cup unanswered \cup ({r.patientDataId : r \in forecastLog} \ {0})
  /\ {iopPredictions[i].patientDataId : i \in DOMAIN iopPredictions}
       = {r.patientDataId : r \in Forecasts}

\* the model failed for the first request and succeeded for the second,
\* and a request with an invalid body was answered
C26_Witness ==
  /\ Len(patientData) = 2
  /\ \E r \in forecastLog :
       r.patientDataId = 1 /\ r.status = 500 /\ r.json.error = "Python script failed"
  /\ \E r \in forecastLog : r.patientDataId = 2 /\ r.status = 200
  /\ \E r \in forecastLog : r.patientDataId = 0 /\ r.status = 500
  /\ Len(iopPredictions) = HoursPerDay
  /\ getPatientData(1) # <<>>

(***************************************************************************)
(* Home and the submit of PatientForm.  Home keeps predictions, loading    *)
(* and error and hands three callbacks to the form; handleSubmit calls     *)
(* them around the POST /api/predict-iop request.                          *)
(***************************************************************************)
\* a slip: the error set without the forecast being taken down
handleError_KeepsForecast(errorMessage) ==
  /\ error' = errorMessage
  /\ UNCHANGED shownPredictions

\* Home.handlePredictionsUpdate
handlePredictionsUpdate(newPredictions) ==
  /\ shownPredictions' = <<newPredictions>>
  /\ error' = ""

\* Home.handleError
handleError(errorMessage) ==
  /\ error' = errorMessage
  /\ shownPredictions' = <<>>

\* Home.handleLoadingChange
handleLoadingChange(isLoading) == loading' = isLoading

\* the form sends at most this many submits in the model
MaxSubmits == 2

\* the values the form takes: two that the schema accepts and one with the
\* age input cleared (parseInt("") is NaN, no number for the schema)
SubmitRecords ==
  {DefaultFormData, MaxedRecord, [f \in RequiredFields \ {"age"} |-> DefaultFormData[f]]}

\* what the awaits of handleSubmit can end with: the parsed body of the
\* response, or an Error thrown by apiRequest or by response.json()
ParsedResponses == {[forecastFor |-> data] : data \in {DefaultFormData, MaxedRecord}}

ErrorMessages ==
  {"500: Python script failed", "Failed to fetch", "Unexpected end of JSON input"}

\* a callback as handleSubmit called it
Called(callback, arg) == [callback |-> callback, arg |-> arg]

\* the calls every handleSubmit begins with
SubmitPrologue == <<Called("onLoadingChange", "true"), Called("onError", "")>>

\* everything but Home's state and the submits
outsideHome == <<riskVars, storeVars, callVars, clientVars>>

\* a slip: the submit button not disabled while loading
HandleSubmitStarts_ButtonEnabled ==
  /\ Len(submits) < MaxSubmits
  /\ SchemaAccepts(formData)
  /\ handleLoadingChange(TRUE)
  /\ handleError("")
  /\ submits' = Append(submits, [stage |-> "sent", data |-> formData,
                                 called |-> SubmitPrologue])
  /\ UNCHANGED outsideHome

\* handleSubmit up to the await of apiRequest, with data the schema accepts.
\* The button is disabled and the overlay covers the form while loading.
HandleSubmitStarts ==
  /\ ~loading
  /\ Len(submits) < MaxSubmits
  /\ SchemaAccepts(formData)
  /\ handleLoadingChange(TRUE)
  /\ handleError("")
  /\ submits' = Append(submits, [stage |-> "sent", data |-> formData,
                                 called |-> SubmitPrologue])
  /\ UNCHANGED outsideHome

\* handleSubmit with data the schema rejects: parse throws before any
\* await, so the catch and the finally run in the same turn
HandleSubmitInvalid ==
  /\ ~loading
  /\ Len(submits) < MaxSubmits
  /\ ~SchemaAccepts(formData)
  /\ handleError("ZodError")
  /\ handleLoadingChange(FALSE)
  /\ submits' = Append(submits,
       [stage |-> "done", data |-> formData,
        called |-> SubmitPrologue \o <<Called("onError", "ZodError"),
                                       Called("onLoadingChange", "false")>>])
  /\ UNCHANGED outsideHome

\* the awaits of submit k resolve: onPredictionsUpdate, toast, finally
SubmitResolves(k) ==
  /\ k \in DOMAIN submits
  /\ submits[k].stage = "sent"
  /\ handlePredictionsUpdate([forecastFor |-> submits[k].data])
  /\ handleLoadingChange(FALSE)
  /\ submits' = [submits EXCEPT ![k].stage = "done",
                                ![k].called = @ \o <<Called("onPredictionsUpdate", "forecast"),
                                                     Called("onLoadingChange", "false")>>]
  /\ UNCHANGED outsideHome

\* an await of submit k throws: catch (onError, toast), finally
SubmitRejects(k, errorMessage) ==
  /\ k \in DOMAIN submits
  /\ submits[k].stage = "sent"
  /\ handleError(errorMessage)
  /\ handleLoadingChange(FALSE)
  /\ submits' = [submits EXCEPT ![k].stage = "done",
                                ![k].called = @ \o <<Called("onError", errorMessage),
                                                     Called("onLoadingChange", "false")>>]
  /\ UNCHANGED outsideHome

\* the callbacks of Home called on their own, in any order
PredictionsUpdateCalled(newPredictions) ==
  /\ handlePredictionsUpdate(newPredictions)
  /\ UNCHANGED <<loading, submits, outsideHome>>

ErrorCalled(errorMessage) ==
  /\ handleError(errorMessage)
  /\ UNCHANGED <<loading, submits, outsideHome>>

LoadingChangeCalled(isLoading) ==
  /\ handleLoadingChange(isLoading)
  /\ UNCHANGED <<shownPredictions, error, submits, outsideHome>>

InitHome == InitRequest({DefaultFormData})

\* Home under any sequence of calls of its callbacks, by submits or not
NextHome ==
  \/ \E newPredictions \in ParsedResponses : PredictionsUpdateCalled(newPredictions)
  \/ \E errorMessage \in ErrorMessages \cup {""} : ErrorCalled(errorMessage)
  \/ \E isLoading \in BOOLEAN : LoadingChangeCalled(isLoading)
  \/ \E data \in SubmitRecords : EditForm(data)
  \/ HandleSubmitStarts
  \/ HandleSubmitInvalid
  \/ \E k \in DOMAIN submits : SubmitResolves(k)
  \/ \E k \in DOMAIN submits : \E errorMessage \in ErrorMessages : SubmitRejects(k, errorMessage)

SpecHome == InitHome /\ [][NextHome]_vars

\* the form as its user drives it
NextSubmit ==
  \/ \E data \in SubmitRecords : EditForm(data)
  \/ HandleSubmitStarts
  \/ HandleSubmitInvalid
  \/ \E k \in DOMAIN submits : SubmitResolves(k)
  \/ \E k \in DOMAIN submits : \E errorMessage \in ErrorMessages : SubmitRejects(k, errorMessage)

\* a request that was sent ends: fetch resolves or rejects
SubmitSettles(k) ==
  SubmitResolves(k) \/ \E errorMessage \in ErrorMessages : SubmitRejects(k, errorMessage)

SpecSubmit ==
  /\ InitHome
  /\ [][NextSubmit]_vars
  /\ \A k \in 1..MaxSubmits : WF_vars(SubmitSettles(k))

(***************************************************************************)
(* Claims about Home and the submit.                                       *)
(***************************************************************************)
\* C27: in every state of Home an error is shown only while no forecast is
\* shown, whatever calls of handlePredictionsUpdate, handleError and
\* handleLoadingChange led there; and the step in which a submit starts
\* leaves neither an error nor a forecast on the page.
C27_ErrorExcludesForecast ==
  /\ error # "" => shownPredictions = <<>>
  /\ [][/\ error' # "" => shownPredictions' = <<>>
        /\ (Len(submits') > Len(submits) /\ submits'[Len(submits')].stage = "sent") =>
             (error' = "" /\ shownPredictions' = <<>>)]_<<shownPredictions, error, submits>>

\* a submit started while a forecast was shown, and took it down
C27_Witness ==
  /\ Len(submits) = 2
  /\ submits[1].stage = "done"
  /\ submits[1].called[3] = Called("onPredictionsUpdate", "forecast")
  /\ submits[2].stage = "sent"
  /\ shownPredictions = <<>>
  /\ error = ""
  /\ loading

\* the submits that have called all their callbacks
Done(k) == k \in DOMAIN submits /\ submits[k].stage = "done"

\* C28: a submit calls onLoadingChange(true) and onError("") before its
\* request is sent, then exactly one of onPredictionsUpdate(forecast) and
\* onError(message) with a message that is not empty, then
\* onLoadingChange(false), and every submit gets that far; loading is true
\* in every state in which a request is in flight.
C28_LoadingBracketsSubmit ==
  /\ [](\A k \in DOMAIN submits :
          IF submits[k].stage = "sent"
          THEN loading /\ submits[k].called = SubmitPrologue
          ELSE /\ Len(submits[k].called) = 4
               /\ SubSeq(submits[k].called, 1, 2) = SubmitPrologue
               /\ \/ submits[k].called[3] = Called("onPredictionsUpdate", "forecast")
                  \/ /\ submits[k].called[3].callback = "onError"
                     /\ submits[k].called[3].arg # ""
               /\ submits[k].called[4] = Called("onLoadingChange", "false"))
  /\ \A k \in 1..MaxSubmits :
       (Len(submits) >= k) ~> (Done(k) /\ ~loading)

\* a submit that failed on the server, then one that brought a forecast
C28_Witness ==
  /\ Len(submits) = 2
  /\ submits[1].stage = "done"
  /\ submits[1].called[3] = Called("onError", "500: Python script failed")
  /\ submits[2].called = SubmitPrologue \o <<Called("onPredictionsUpdate", "forecast"),
                                               Called("onLoadingChange", "false")>>
  /\ shownPredictions = <<[forecastFor |-> MaxedRecord]>>
  /\ ~loading

(***************************************************************************)
(* POST /api/calculate-risk on records that differ in the fields the       *)
(* scorer does not read.                                                   *)
(***************************************************************************)
\* the fields calculateRealTimeRisk never reads
IgnoredFields == {"gender", "bloodSugar", "currentMedications"}

\* records over the fields the scorer reads
ScoredProfiles ==
  {DefaultFormData,
   MaxedRecord,
   [DefaultFormData EXCEPT !.diabetesStatus = "prediabetes"],
   [DefaultFormData EXCEPT !.diabetesStatus = "type1"],
   PatientRecord(18, 10, 1, 10, <<120, 80>>, "none", "none", 0),
   PatientRecord(41, 7, 4, 5, <<131, 80>>, "type2", "parent", 28)}

\* a record with the three fields set; bloodSugar may be absent
WithIgnored(data, gender, sugar, medications) ==
  LET set == [data EXCEPT !.gender = gender, !.currentMedications = medications]
  IN  IF sugar = <<>>
      THEN [f \in DOMAIN set \ {"bloodSugar"} |-> set[f]]
      ELSE [set EXCEPT !.bloodSugar = sugar[1]]

IgnoredFieldBodies ==
  {WithIgnored(data, gender, sugar, medications) :
     data \in ScoredProfiles,
     gender \in {"male", "female", "other"},
     sugar \in {<<>>, <<70>>, <<100>>, <<126>>, <<400>>},
     medications \in {"none", "latanoprost", "timolol, dorzolamide"}}

\* gender is not read by the scorer, but the schema requires it
InitIgnored ==
  InitRequest(IgnoredFieldBodies
              \cup {[f \in RequiredFields \ {"gender"} |-> DefaultFormData[f]]})

SpecIgnored == InitIgnored /\ [][Next]_vars

\* the part of a record the scorer reads
Scored(b) == [f \in RequiredFields \ IgnoredFields |-> b[f]]

\* the result for each of the records, tabulated
RiskOfIgnoredBody == [b \in IgnoredFieldBodies |-> calculateRealTimeRisk(b)]

\* C29: the result for a record is the result for every record that agrees
\* with it on age, sleepQuality, stressLevel, physicalActivity, systolicBP,
\* diastolicBP, diabetesStatus, familyHistory and lastDropHours, whatever
\* the gender, bloodSugar (given or not) and currentMedications of the two.
C29_IgnoredFieldsDoNotCount ==
  Responded =>
    \A other \in IgnoredFieldBodies :
      Scored(other) = Scored(body) => RiskOfIgnoredBody[other] = response.json

\* a type 1 diabetic with a blood sugar of 400 mg/dL, answered as the same
\* record with no bloodSugar, another gender and other medication is
C29_Witness ==
  /\ Responded
  /\ body = WithIgnored([DefaultFormData EXCEPT !.diabetesStatus = "type1"],
                        "female", <<400>>, "latanoprost")
  /\ response.json =
       RiskOfIgnoredBody[WithIgnored([DefaultFormData EXCEPT !.diabetesStatus = "type1"],
                                     "male", <<>>, "none")]
  /\ response.json.risk_percentage = 350

(***************************************************************************)
(* Claims about the scorer: the fields it reads and its lower clamp.       *)
(***************************************************************************)
\* C30: for a record within the documented ranges stressLevel contributes
\* at least 1.5 and no contribution is negative, the raw score is at least
\* 1.5, so that Math.max(0, riskScore) returns the score itself, the
\* risk_percentage returned is at least 1.5 and the average_predicted_iop
\* at least 14.1.
C30_LowerClampIdle ==
  (Responded /\ InDocumentedRanges(body)) =>
    /\ ~FLt(StressFactor(body), F_1_5)
    /\ \A factor \in {AgeFactor(body), SleepFactor(body), ActivityFactor(body)} :
         ~FLt(factor, F_0)
    /\ ~FLt(frame.riskScore, F_1_5)
    /\ FMax(F_0, frame.riskScore) = frame.riskScore
    /\ response.json.risk_percentage >= 15
    /\ response.json.average_predicted_iop >= 141

\* the record with the lowest score the ranges allow: only stressLevel = 1
\* contributes
C30_Witness ==
  /\ Responded
  /\ body = PatientRecord(18, 10, 1, 10, <<120, 80>>, "none", "none", 0)
  /\ frame.riskScore = F_1_5
  /\ frame.riskPercentage = F_1_5
  /\ response.json.risk_percentage = 15
  /\ response.json.average_predicted_iop = 141

=============================================================================
